---------------------------- MODULE Spec2Model ----------------------------
(***************************************************************************)
(* Model of the Cloudflare tunnel monitor integration:                     *)
(*   coordinator.py  CloudflareTunnelCoordinator (refresh cycle, fetches,  *)
(*                   _build_connectors)                                    *)
(*   sensor.py       CloudflareTunnelSensor (native_value)                 *)
(*                                                                         *)
(* Python values are modelled as follows.  None and an absent dict key are *)
(* the string None (dict.get yields None for both); every other scalar is  *)
(* a string; a Python list is a sequence; a Python set is a set.           *)
(***************************************************************************)
EXTENDS Integers, Sequences, FiniteSets, TLC

(***************************************************************************)
(* Bounds of the model.                                                    *)
(***************************************************************************)
\* longest raw connection list handed to _build_connectors in SpecRec
MaxConns == 3
\* number of timer periods (update_interval) the clock may advance
MaxTicks == 2

(***************************************************************************)
(* Python scalars.                                                         *)
(***************************************************************************)
None == "<None>"

\* Python truthiness of a string-or-None value
Truthy(x) == x # None /\ x # ""

\* Python `x or y`
PyOr(x, y) == IF Truthy(x) THEN x ELSE y

\* The strings the model compares with < or sorts, in ascending order of
\* Python's str comparison (code points, left to right).
StrOrder ==
  << "10.0.0.1", "10.0.0.2",
     "2024-01-01T00:00:00Z", "2024-03-01T00:00:00Z",
     "AMS", "FRA" >>

StrRank(s) == CHOOSE i \in 1..Len(StrOrder) : StrOrder[i] = s

\* Python `a < b` on str
StrLess(a, b) == StrRank(a) < StrRank(b)

\* sorted(S, reverse=True)
RECURSIVE SortedDesc(_)
SortedDesc(S) ==
  IF S = {} THEN << >>
  ELSE LET m == CHOOSE x \in S : \A y \in S : y = x \/ StrLess(y, x)
       IN  << m >> \o SortedDesc(S \ {m})

\* sorted(S) of a set of str: coordinator.py 242-243
RECURSIVE Sorted(_)
Sorted(S) ==
  IF S = {} THEN << >>
  ELSE LET m == CHOOSE x \in S : \A y \in S : y = x \/ StrLess(x, y)
       IN  << m >> \o Sorted(S \ {m})

(***************************************************************************)
(* Raw connection records (the dicts of a connections payload).            *)
(***************************************************************************)
BlankConn ==
  [ client_id |-> None, clientId |-> None,
    client_version |-> None, clientVersion |-> None, version |-> None,
    opened_at |-> None, openedAt |-> None, started_at |-> None,
    colo_name |-> None, edge |-> None, colo |-> None, origin |-> None,
    client_address |-> None, origin_ip |-> None, ip |-> None,
    is_pending_reconnect |-> None, pending_reconnect |-> None ]

\* the chain without its default: a connection without an identifier keeps
\* whatever the last alias read
ResolveClientIdNoDefault(conn) == PyOr(conn.client_id, conn.clientId)

\* coordinator.py 177
ResolveClientId(conn) == PyOr(PyOr(conn.client_id, conn.clientId), "unknown")

\* coordinator.py 178-182
ResolveVersion(conn) ==
  PyOr(PyOr(conn.client_version, conn.clientVersion), conn.version)

\* coordinator.py 184-188
ResolveOpenedAt(conn) ==
  PyOr(PyOr(conn.opened_at, conn.openedAt), conn.started_at)

\* coordinator.py 190-195
ResolveEdge(conn) ==
  PyOr(PyOr(PyOr(conn.colo_name, conn.edge), conn.colo), conn.origin)

\* coordinator.py 196-200
ResolveOriginIp(conn) ==
  PyOr(PyOr(conn.client_address, conn.origin_ip), conn.ip)

\* only the first alias of the flag is read
ResolvePendingFirstAlias(conn) == conn.is_pending_reconnect = "true"

\* coordinator.py 202-204: bool(a or b).  A JSON flag is "true", "false" or
\* absent; false and None are falsy, so `a or b` is a when a is true and b
\* otherwise.
ResolvePending(conn) ==
  LET flag == IF conn.is_pending_reconnect = "true"
              THEN conn.is_pending_reconnect ELSE conn.pending_reconnect
  IN  flag = "true"

(***************************************************************************)
(* _build_connectors: the fold.  `grouped` is the dict of the code, kept   *)
(* as the sequence of its values in insertion order; `total` is            *)
(* total_sessions.                                                         *)
(***************************************************************************)
\* coordinator.py 208-220: the default handed to setdefault
NewGroup(client_id, version, latest_version) ==
  [ client_id |-> client_id,
    version |-> version,
    sessions |-> 0,
    edges |-> {},
    origin_ips |-> {},
    pending_reconnect |-> FALSE,
    opened_at_latest |-> None,
    latest_version |-> latest_version ]

\* index of the group of client_id in grouped, 0 when there is none
GroupIndex(grouped, client_id) ==
  IF \E j \in 1..Len(grouped) : grouped[j].client_id = client_id
  THEN CHOOSE j \in 1..Len(grouped) : grouped[j].client_id = client_id
  ELSE 0

\* `grouped[client_id] = {...}`: an existing group is replaced
SetDefaultOverwrite(grouped, client_id, version, latest_version) ==
  IF GroupIndex(grouped, client_id) = 0
  THEN Append(grouped, NewGroup(client_id, version, latest_version))
  ELSE [ grouped EXCEPT ![GroupIndex(grouped, client_id)] =
           NewGroup(client_id, version, latest_version) ]

\* coordinator.py 206-221: grouped.setdefault(client_id, {...})
SetDefault(grouped, client_id, version, latest_version) ==
  IF GroupIndex(grouped, client_id) = 0
  THEN Append(grouped, NewGroup(client_id, version, latest_version))
  ELSE grouped

\* the session counter advanced only for identified connections
CountSessionIdentifiedOnly(n, client_id) ==
  IF client_id = "unknown" THEN n ELSE n + 1

\* coordinator.py 223-224: `+= 1` on sessions and on total_sessions
CountSession(n, client_id) == n + 1

\* coordinator.py 226-229: `if x: s.add(x)`
AddIfTruthy(S, x) == IF Truthy(x) THEN S \cup {x} ELSE S

\* the comparison dropped: the last timestamp seen wins
LaterOpenedAtLastWins(prev, opened_at) ==
  IF Truthy(opened_at) THEN opened_at ELSE prev

\* coordinator.py 231-234
LaterOpenedAt(prev, opened_at) ==
  IF Truthy(opened_at)
  THEN IF prev = None \/ StrLess(prev, opened_at) THEN opened_at ELSE prev
  ELSE prev

\* coordinator.py 223-237: the updates of one group for one connection
UpdateGroup(g, conn) ==
  [ g EXCEPT
      !.sessions = CountSession(g.sessions, g.client_id),
      !.edges = AddIfTruthy(g.edges, ResolveEdge(conn)),
      !.origin_ips = AddIfTruthy(g.origin_ips, ResolveOriginIp(conn)),
      !.opened_at_latest = LaterOpenedAt(g.opened_at_latest, ResolveOpenedAt(conn)),
      !.pending_reconnect = g.pending_reconnect \/ ResolvePending(conn) ]

\* coordinator.py 176-237: one iteration of the loop over connections
FoldConn(st, conn, latest_version) ==
  LET client_id == ResolveClientId(conn)
      grouped == SetDefault(st.grouped, client_id, ResolveVersion(conn), latest_version)
      j == GroupIndex(grouped, client_id)
  IN  [ grouped |-> [ grouped EXCEPT ![j] = UpdateGroup(grouped[j], conn) ],
        total |-> CountSession(st.total, client_id) ]

\* coordinator.py 173-237: the loop
RECURSIVE FoldAll(_, _, _, _)
FoldAll(connections, k, st, latest_version) ==
  IF k > Len(connections) THEN st
  ELSE FoldAll(connections, k + 1, FoldConn(st, connections[k], latest_version),
               latest_version)

\* update_available computed as `version != latest` whether or not both are
\* known (the comparison of sensor.py 139 without its guard)
VersionFieldsUnguarded(version, latest) ==
  [ is_latest |-> IF Truthy(version) /\ Truthy(latest)
                  THEN (IF version = latest THEN "True" ELSE "False") ELSE None,
    update_available |-> IF version = latest THEN "False" ELSE "True",
    version_diff |-> IF Truthy(version) /\ Truthy(latest) /\ version # latest
                     THEN version \o " -> " \o latest ELSE None ]

\* coordinator.py 245-258: the version comparison; Python True/False/None
\* are the strings "True", "False" and None
VersionFields(version, latest) ==
  IF Truthy(version) /\ Truthy(latest)
  THEN [ is_latest |-> IF version = latest THEN "True" ELSE "False",
         update_available |-> IF version = latest THEN "False" ELSE "True",
         version_diff |-> IF version = latest THEN None
                          ELSE version \o " -> " \o latest ]
  ELSE [ is_latest |-> None, update_available |-> None, version_diff |-> None ]

\* coordinator.py 240-260: one connector finalized
Finalize(g) ==
  LET vf == VersionFields(g.version, g.latest_version)
  IN  [ client_id |-> g.client_id,
        version |-> g.version,
        sessions |-> g.sessions,
        edges |-> Sorted(g.edges),
        origin_ips |-> Sorted(g.origin_ips),
        pending_reconnect |-> g.pending_reconnect,
        opened_at_latest |-> g.opened_at_latest,
        latest_version |-> g.latest_version,
        is_latest |-> vf.is_latest,
        update_available |-> vf.update_available,
        version_diff |-> vf.version_diff ]

\* coordinator.py 167-262: _build_connectors(connections, latest_version)
BuildConnectors(connections, latest_version) ==
  LET st == FoldAll(connections, 1, [ grouped |-> << >>, total |-> 0 ], latest_version)
      connectors == [ j \in 1..Len(st.grouped) |-> Finalize(st.grouped[j]) ]
  IN  [ connectors |-> connectors,
        connector_count |-> Len(connectors),
        session_count |-> st.total ]

(***************************************************************************)
(* Inputs of the reconciler specification.                                 *)
(***************************************************************************)
\* (client_id, clientId): resolves to "A", "B", "unknown"
IdChoices == { << "A", None >>, << "", "B" >>, << None, None >> }

\* (colo_name, colo, origin): resolves to "AMS", "FRA", nothing
EdgeChoices == { << "AMS", None, None >>, << None, "FRA", "AMS" >>, << None, None, None >> }

WithId(c, i) == [ c EXCEPT !.client_id = i[1], !.clientId = i[2] ]

ConnSamples ==
     { [ WithId(BlankConn, i) EXCEPT !.colo_name = e[1], !.colo = e[2], !.origin = e[3] ]
         : i \in IdChoices, e \in EdgeChoices }
  \cup { [ WithId(BlankConn, i) EXCEPT !.client_address = "10.0.0.2" ] : i \in IdChoices }
  \cup { [ WithId(BlankConn, i) EXCEPT !.origin_ip = "", !.ip = "10.0.0.1",
                                       !.started_at = "2024-03-01T00:00:00Z" ]
         : i \in IdChoices }
  \cup { [ WithId(BlankConn, i) EXCEPT !.client_version = "2024.1.0",
                                       !.opened_at = "2024-01-01T00:00:00Z" ]
         : i \in IdChoices }
  \cup { [ WithId(BlankConn, i) EXCEPT !.version = "2024.2.0",
                                       !.is_pending_reconnect = "true" ]
         : i \in IdChoices }
  \cup { [ WithId(BlankConn, i) EXCEPT !.is_pending_reconnect = "false",
                                       !.pending_reconnect = "true",
                                       !.edge = "FRA" ]
         : i \in { << "A", None >> } }

ConnLists == UNION { [ 1..k -> ConnSamples ] : k \in 0..MaxConns }

LatestChoices == { None, "2024.2.0" }

NoOutput == [ connectors |-> << >>, connector_count |-> 0, session_count |-> 0 ]

VARIABLES
  rcConns,    \* the `connections` argument of _build_connectors
  rcLatest,   \* the `latest_version` argument
  rcOut,      \* the returned (connectors, connector_count, session_count)
  rcPc        \* "ready" before the call, "done" after it

rcVars == << rcConns, rcLatest, rcOut, rcPc >>

RcIdle ==
  /\ rcConns = << >>
  /\ rcLatest = None
  /\ rcOut = NoOutput
  /\ rcPc = "off"

RcInit ==
  /\ rcConns \in ConnLists
  /\ rcLatest \in LatestChoices
  /\ rcOut = NoOutput
  /\ rcPc = "ready"

\* one call of _build_connectors
Reconcile ==
  /\ rcPc = "ready"
  /\ rcOut' = BuildConnectors(rcConns, rcLatest)
  /\ rcPc' = "done"
  /\ UNCHANGED << rcConns, rcLatest >>


(***************************************************************************)
(* HTTP exchanges.  An outcome is what one GET ends in: a response with a  *)
(* status and a body, asyncio.TimeoutError, or aiohttp.ClientError (a      *)
(* connection failure, or a 200 whose content type is not JSON).  A body   *)
(* is a JSON document: `shape` is "object", "array" (valid JSON, not an    *)
(* object) or "undecodable"; `resultKind` says what its "result" key       *)
(* holds: "list", "null", "string", or "absent"; `text` is the body as     *)
(* text, kept for the bodies of error responses only, the only ones whose  *)
(* text the code reads.  `reason` is the reason phrase of the status line. *)
(***************************************************************************)
NoBody ==
  [ shape |-> "none", resultKind |-> "absent", result |-> << >>, text |-> "" ]

ReasonPhrase(status) ==
  CASE status = 200 -> "OK"
    [] status = 401 -> "Unauthorized"
    [] status = 403 -> "Forbidden"
    [] status = 500 -> "Internal Server Error"
    [] OTHER -> ""

Response(status, body) ==
  [ kind |-> "response", status |-> status, reason |-> ReasonPhrase(status),
    body |-> body ]

TimedOut == [ kind |-> "timeout", status |-> 0, reason |-> "", body |-> NoBody ]

ClientError ==
  [ kind |-> "clienterror", status |-> 0, reason |-> "", body |-> NoBody ]

JsonObject(resultKind, result) ==
  [ shape |-> "object", resultKind |-> resultKind, result |-> result, text |-> "" ]

\* coordinator.py 73: the length of the body excerpt of an error message
ExcerptLen == 200

\* coordinator.py 73: text[:200]
Excerpt(text) ==
  SubSeq(text, 1, IF Len(text) < ExcerptLen THEN Len(text) ELSE ExcerptLen)

\* stands for the `url` argument in the message of coordinator.py 73
Url == "<url>"

\* coordinator.py 72-74: the message of the UpdateFailed of a response that
\* is neither a 200 nor a 401
ErrorMessage(o) ==
  "Error " \o ToString(o.status) \o " from " \o Url \o ": " \o o.reason
    \o " - " \o Excerpt(o.body.text)

Returned(body) == [ exc |-> "none", msg |-> "", body |-> body ]

Raised(exc, msg) == [ exc |-> exc, msg |-> msg, body |-> NoBody ]

\* _fetch_json without the branch of line 68: a 401 is reported like any
\* other status that is not 200
FetchJsonNo401(o) ==
  IF o.kind = "timeout"
  THEN Raised("UpdateFailed", "Timeout while communicating with Cloudflare")
  ELSE IF o.kind = "clienterror"
  THEN Raised("UpdateFailed", "Client error while communicating with Cloudflare")
  ELSE IF o.status # 200
  THEN Raised("UpdateFailed", ErrorMessage(o))
  ELSE IF o.body.shape = "undecodable"
  THEN Raised("JSONDecodeError", "")
  ELSE Returned(o.body)

\* _fetch_json that returns the decoded body whatever the status
FetchJsonAnyStatus(o) ==
  IF o.kind = "timeout"
  THEN Raised("UpdateFailed", "Timeout while communicating with Cloudflare")
  ELSE IF o.kind = "clienterror"
  THEN Raised("UpdateFailed", "Client error while communicating with Cloudflare")
  ELSE IF o.body.shape = "undecodable"
  THEN Raised("JSONDecodeError", "")
  ELSE Returned(o.body)

\* coordinator.py 61-79: _fetch_json.  resp.json() (line 75) raises
\* json.JSONDecodeError, a ValueError, on a body that is not JSON; lines
\* 76-79 catch asyncio.TimeoutError and aiohttp.ClientError only.
FetchJson(o) ==
  IF o.kind = "timeout"
  THEN Raised("UpdateFailed", "Timeout while communicating with Cloudflare")
  ELSE IF o.kind = "clienterror"
  THEN Raised("UpdateFailed", "Client error while communicating with Cloudflare")
  ELSE IF o.status = 401
  THEN Raised("UpdateFailed", "Unauthorized (401). Check your API token.")
  ELSE IF o.status # 200
  THEN Raised("UpdateFailed", ErrorMessage(o))
  ELSE IF o.body.shape = "undecodable"
  THEN Raised("JSONDecodeError", "")
  ELSE Returned(o.body)

\* `result = tunnels_resp.get("result") or []`: whatever is not a non-empty
\* list reads as no tunnels
TunnelsResultLenient(body) ==
  IF body.shape # "object"
  THEN [ exc |-> "AttributeError", msg |-> "", result |-> << >> ]
  ELSE IF body.resultKind = "list"
  THEN [ exc |-> "none", msg |-> "", result |-> body.result ]
  ELSE [ exc |-> "none", msg |-> "", result |-> << >> ]

\* coordinator.py 121-123: result = tunnels_resp.get("result", []), which
\* must be a list
TunnelsResult(body) ==
  IF body.shape # "object"
  THEN [ exc |-> "AttributeError", msg |-> "", result |-> << >> ]
  ELSE IF body.resultKind = "absent"
  THEN [ exc |-> "none", msg |-> "", result |-> << >> ]
  ELSE IF body.resultKind = "list"
  THEN [ exc |-> "none", msg |-> "", result |-> body.result ]
  ELSE [ exc |-> "UpdateFailed", msg |-> "Unexpected tunnels payload from Cloudflare",
         result |-> << >> ]

\* coordinator.py 137-146 and 176: the connections of one tunnel from the
\* outcome r of _fetch_json.  UpdateFailed is caught and gives []; any other
\* exception leaves the loop; a null "result" is None, which
\* `connections or []` turns into [].
ConnectionsRaw(r) ==
  IF r.exc = "UpdateFailed" THEN [ exc |-> "none", conns |-> << >> ]
  ELSE IF r.exc # "none" THEN [ exc |-> r.exc, conns |-> << >> ]
  ELSE IF r.body.shape # "object" THEN [ exc |-> "AttributeError", conns |-> << >> ]
  ELSE IF r.body.resultKind = "list" THEN [ exc |-> "none", conns |-> r.body.result ]
  ELSE [ exc |-> "none", conns |-> << >> ]

\* the record of one tunnel with the name as listed, without the fallback
TunnelRecordNameAsListed(tunnel, connections_raw, latest_version) ==
  LET built == BuildConnectors(connections_raw, latest_version)
  IN  [ id |-> tunnel.id,
        name |-> tunnel.name,
        status |-> tunnel.status,
        created_at |-> tunnel.created_at,
        connector_count |-> built.connector_count,
        session_count |-> built.session_count,
        connectors |-> built.connectors,
        latest_cloudflared_version |-> latest_version ]

\* coordinator.py 152-163: the record appended for one tunnel
TunnelRecord(tunnel, connections_raw, latest_version) ==
  LET built == BuildConnectors(connections_raw, latest_version)
  IN  [ id |-> tunnel.id,
        name |-> PyOr(tunnel.name, tunnel.id),
        status |-> tunnel.status,
        created_at |-> tunnel.created_at,
        connector_count |-> built.connector_count,
        session_count |-> built.session_count,
        connectors |-> built.connectors,
        latest_cloudflared_version |-> latest_version ]

(***************************************************************************)
(* The release endpoint.  A release body has the keys tag_name and name;   *)
(* NonStr stands for a JSON value that is not a string.                    *)
(***************************************************************************)
NonStr == "<non-str>"

ReleaseBody(shape, tag_name, name) ==
  [ shape |-> shape, tag_name |-> tag_name, name |-> name ]

\* coordinator.py 102: str.lstrip("v") on the tags of the model
LStripV(s) == IF s = "v2024.2.0" THEN "2024.2.0" ELSE s

\* coordinator.py 81-105: _fetch_latest_version; every exception is caught
\* (line 103) and gives None
FetchLatestVersion(o) ==
  IF o.kind # "response" THEN None
  ELSE IF o.status # 200 THEN None
  ELSE IF o.body.shape # "object" THEN None
  ELSE LET version == PyOr(o.body.tag_name, o.body.name)
       IN  IF version # None /\ version # NonStr THEN LStripV(version) ELSE None

(***************************************************************************)
(* The provider's side: tunnels, their connections, the release feed.      *)
(***************************************************************************)
Accounts == { "acct1", "acct2" }

T1 == [ id |-> "t1", name |-> "home", status |-> "healthy",
        created_at |-> "2024-01-01T00:00:00Z" ]

T2 == [ id |-> "t2", name |-> None, status |-> None,
        created_at |-> "2024-03-01T00:00:00Z" ]

T3 == [ id |-> "t3", name |-> "", status |-> "paused", created_at |-> None ]

NoIdTunnel == [ id |-> None, name |-> "orphan", status |-> "inactive",
                created_at |-> None ]

Listings == { << >>, << T1 >>, << T1, T2 >>, << T1, NoIdTunnel, T3 >> }

\* the connections the provider reports for a tunnel
ProviderConnections(tunnel_id) ==
  IF tunnel_id = "t1"
  THEN JsonObject("list",
         << [ BlankConn EXCEPT !.client_id = "A", !.version = "2024.1.0", !.colo = "AMS" ],
            [ BlankConn EXCEPT !.client_id = "A", !.colo = "FRA" ],
            [ BlankConn EXCEPT !.client_id = "B", !.version = "2024.1.0" ] >>)
  ELSE IF tunnel_id = "t2"
  THEN JsonObject("list",
         << [ BlankConn EXCEPT !.clientId = "B", !.client_version = "2024.2.0",
                               !.is_pending_reconnect = "true" ] >>)
  ELSE JsonObject("null", << >>)

\* the body of a provider error response: an object without "result"
ErrorBody ==
  [ JsonObject("absent", << >>) EXCEPT
      !.text = "{\"success\":false,\"errors\":[{\"code\":1000}]}" ]

\* an error page of more than ExcerptLen characters
ErrorPage ==
  [ NoBody EXCEPT
      !.shape = "undecodable",
      !.text = "<!DOCTYPE html><html><head><title>500 Internal Server Error"
               \o "</title></head><body><h1>Internal Server Error</h1><p>The "
               \o "server encountered an internal error and was unable to "
               \o "complete your request. Either the server is overloaded or "
               \o "there is an error in the application.</p><hr><address>"
               \o "cloudflare</address></body></html>" ]

\* What a GET of the tunnel listing may end in.  _fetch_json never decodes
\* the body of a response that is not a 200; the 401 here carries a listing
\* so that this is checked and not assumed.
TunnelOutcomes(listing) ==
  { Response(200, JsonObject("list", listing)),
    Response(200, JsonObject("string", << >>)),
    Response(200, [ NoBody EXCEPT !.shape = "undecodable" ]),
    Response(401, JsonObject("list", listing)),
    Response(500, ErrorPage),
    TimedOut,
    ClientError }

\* what a GET of one tunnel's connections may end in
ConnectionOutcomes(tunnel_id) ==
  { Response(200, ProviderConnections(tunnel_id)),
    Response(200, [ NoBody EXCEPT !.shape = "undecodable" ]),
    Response(200, [ NoBody EXCEPT !.shape = "array" ]),
    Response(401, ErrorBody),
    Response(500, ErrorBody),
    TimedOut,
    ClientError }

\* what a GET of the latest release may end in
ReleaseOutcomes ==
  { Response(200, ReleaseBody("object", "2024.2.0", None)),
    Response(200, ReleaseBody("object", None, "v2024.2.0")),
    Response(200, ReleaseBody("object", NonStr, None)),
    Response(200, ReleaseBody("array", None, None)),
    Response(403, ReleaseBody("object", None, None)),
    TimedOut }

(***************************************************************************)
(* Sensor (sensor.py).                                                     *)
(***************************************************************************)
\* sensor.py 40: _attr_options
Options == { "inactive", "degraded", "healthy", "down" }

NoTunnel ==
  [ id |-> None, name |-> None, status |-> None, created_at |-> None,
    connector_count |-> 0, session_count |-> 0, connectors |-> << >>,
    latest_cloudflared_version |-> None ]

\* _tunnel falling back to the first record of the snapshot when none has
\* the sensor's id
SensorTunnelFirstRecord(snapshot, tunnel_id) ==
  IF \E k \in 1..Len(snapshot.tunnels) : snapshot.tunnels[k].id = tunnel_id
  THEN snapshot.tunnels[CHOOSE k \in 1..Len(snapshot.tunnels) :
                          /\ snapshot.tunnels[k].id = tunnel_id
                          /\ \A m \in 1..(k - 1) : snapshot.tunnels[m].id # tunnel_id]
  ELSE IF snapshot.tunnels # << >> THEN snapshot.tunnels[1]
  ELSE NoTunnel

\* sensor.py 55-61: _tunnel; {} is a record whose every key reads None
SensorTunnel(snapshot, tunnel_id) ==
  IF \E k \in 1..Len(snapshot.tunnels) : snapshot.tunnels[k].id = tunnel_id
  THEN snapshot.tunnels[CHOOSE k \in 1..Len(snapshot.tunnels) :
                          /\ snapshot.tunnels[k].id = tunnel_id
                          /\ \A m \in 1..(k - 1) : snapshot.tunnels[m].id # tunnel_id]
  ELSE NoTunnel

\* sensor.py 66-68: native_value
NativeValue(snapshot, tunnel_id) == SensorTunnel(snapshot, tunnel_id).status

\* dict.get(key): None when the dict has no such key
Get(d, key) == IF key \in DOMAIN d THEN d[key] ELSE None

\* `x or y` where x is a list or None
ListOr(x, y) == IF x # None /\ x # << >> THEN x ELSE y

\* sensor.py 86: the sessions the sensor folds
SensorSessions(tunnel) ==
  ListOr(ListOr(Get(tunnel, "conns"), Get(tunnel, "connections")), << >>)

\* sensor.py 98-110: the group the sensor creates for a client
SensorNewGroup(client_id, version, latest_version) ==
  [ client_id |-> client_id,
    version |-> version,
    sessions |-> 0,
    edges |-> {},
    origin_ips |-> {},
    pending_reconnect |-> FALSE,
    opened_at_latest |-> None,
    latest_version |-> latest_version,
    is_latest |-> None,
    update_available |-> None,
    version_diff |-> None ]

\* sensor.py 113-141: the updates of one group for one session
SensorUpdateGroup(c, s, latest_version) ==
  LET edge == PyOr(PyOr(PyOr(Get(s, "colo_name"), Get(s, "edge")), Get(s, "colo")),
                   Get(s, "pop"))
      ip == PyOr(Get(s, "origin_ip"), Get(s, "client_address"))
      opened_at == PyOr(Get(s, "opened_at"), Get(s, "run_at"))
      both == Truthy(c.version) /\ Truthy(latest_version)
  IN  [ c EXCEPT
          !.sessions = c.sessions + 1,
          !.edges = AddIfTruthy(c.edges, edge),
          !.origin_ips = AddIfTruthy(c.origin_ips, ip),
          !.pending_reconnect =
             c.pending_reconnect \/ Get(s, "is_pending_reconnect") = "true",
          !.opened_at_latest =
             IF Truthy(opened_at) /\ (c.opened_at_latest = None
                                       \/ StrLess(c.opened_at_latest, opened_at))
             THEN opened_at ELSE c.opened_at_latest,
          !.is_latest =
             IF both THEN (IF c.version = latest_version THEN "True" ELSE "False")
             ELSE c.is_latest,
          !.update_available =
             IF both THEN (IF c.version = latest_version THEN "False" ELSE "True")
             ELSE c.update_available,
          !.version_diff =
             IF both /\ c.version # latest_version
             THEN c.version \o " → " \o latest_version ELSE c.version_diff ]

\* sensor.py 91-141: the loop over the sessions, from position k
RECURSIVE SensorFold(_, _, _, _)
SensorFold(sessions, k, grouped, latest_version) ==
  IF k > Len(sessions) THEN grouped
  ELSE LET s == sessions[k]
           client_id == PyOr(PyOr(Get(s, "client_id"), Get(s, "clientId")), "unknown")
           version == PyOr(Get(s, "client_version"), Get(s, "clientVersion"))
           g == IF GroupIndex(grouped, client_id) = 0
                THEN Append(grouped, SensorNewGroup(client_id, version, latest_version))
                ELSE grouped
           j == GroupIndex(g, client_id)
       IN  SensorFold(sessions, k + 1,
                      [ g EXCEPT ![j] = SensorUpdateGroup(g[j], s, latest_version) ],
                      latest_version)

\* sensor.py 83-155: extra_state_attributes
ExtraStateAttributes(snapshot, tunnel_id) ==
  LET tunnel == SensorTunnel(snapshot, tunnel_id)
      sessions == SensorSessions(tunnel)
      latest_version == Get(tunnel, "latest_cloudflared_version")
      grouped == SensorFold(sessions, 1, << >>, latest_version)
      connector_list ==
        [ j \in 1..Len(grouped) |->
            [ grouped[j] EXCEPT !.edges = Sorted(grouped[j].edges),
                                !.origin_ips = Sorted(grouped[j].origin_ips) ] ]
  IN  [ connector_count |-> Len(connector_list),
        connectors |-> connector_list,
        session_count |-> Len(sessions),
        latest_cloudflared_version |-> latest_version ]

(***************************************************************************)
(* State of the integration.                                               *)
(***************************************************************************)
\* coordinator.py 44: update_interval = timedelta(minutes=1), in minutes
UpdateInterval == 1

\* the time-to-live of the latest-version cache of the specification, in
\* minutes; the code holds no such constant
TTL == 60

NoData == [ has |-> FALSE, tunnels |-> << >> ]

NoResult == Returned(NoBody)

NoError == [ exc |-> "none", msg |-> "" ]

NoOutcome == [ kind |-> "none", status |-> 0, reason |-> "", body |-> NoBody ]

(***************************************************************************)
(* Config flow (config_flow.py).                                           *)
(***************************************************************************)
\* how many times the user submits the form
MaxAttempts == 3

\* what the user may type into the form of config_flow.py 65-69
UserInputs ==
  [ account_id : Accounts, api_key : { "token-1", "token-2" },
    friendly_name : { "Home" } ]

NoInput == [ account_id |-> None, api_key |-> None, friendly_name |-> None ]

\* what the GET of the token-verification endpoint may end in
VerifyOutcomes ==
  { Response(200, NoBody), Response(401, NoBody), Response(403, NoBody),
    Response(500, NoBody), TimedOut, ClientError }

\* config_flow.py 43-48: what the body of the `try` ends in
VerifyRequest(o) ==
  IF o.kind = "timeout" THEN "TimeoutError"
  ELSE IF o.kind = "clienterror" THEN "ClientError"
  ELSE IF o.status = 200 THEN "True"
  ELSE IF o.status = 401 THEN "InvalidAuth"
  ELSE "CannotConnect"

\* config_flow.py 30-52: validate_credentials.  An exception that is not an
\* aiohttp.ClientError reaches the clause `except async_timeout.TimeoutError`
\* (line 51), whose expression is evaluated then: where the installed
\* async_timeout has no attribute TimeoutError that raises AttributeError in
\* place of the exception being handled; where it has, it is
\* asyncio.TimeoutError.
ValidateCredentials(o, timeout_error_defined) ==
  LET r == VerifyRequest(o)
  IN  IF r = "True" THEN "True"
      ELSE IF r = "ClientError" THEN "CannotConnect"
      ELSE IF ~timeout_error_defined THEN "AttributeError"
      ELSE IF r = "TimeoutError" THEN "CannotConnect"
      ELSE r

\* config_flow.py 73-80: errors["base"] for what validate_credentials ended
\* in; None when it returned
StepUserError(r) ==
  IF r = "True" THEN None
  ELSE IF r = "CannotConnect" THEN "cannot_connect"
  ELSE IF r = "InvalidAuth" THEN "invalid_auth"
  ELSE "unknown"

\* config_flow.py 83-86: the entry created from the user's input
ConfigEntry(user_input) ==
  [ title |-> "Cloudflare Tunnels " \o user_input.friendly_name,
    data |-> user_input ]

VARIABLES
  flowPc,       \* "off", "init", "form", "validating", "created"
  flowInput,    \* user_input of the running async_step_user
  flowErrors,   \* errors["base"] of the form shown, None when there is none
  flowOutcome,  \* history: what the last verification request ended in
  entries,      \* the config entries created, in order
  attempts,     \* how many times the form was submitted
  timeoutErrorDefined  \* the installed async_timeout has TimeoutError

flowVars ==
  << flowPc, flowInput, flowErrors, flowOutcome, entries, attempts,
     timeoutErrorDefined >>

\* no config flow is running
FlowIdle ==
  /\ flowPc = "off"
  /\ flowInput = NoInput
  /\ flowErrors = None
  /\ flowOutcome = NoOutcome
  /\ entries = << >>
  /\ attempts = 0
  /\ timeoutErrorDefined = TRUE

\* the user has opened the flow
FlowInit ==
  /\ flowPc = "init"
  /\ flowInput = NoInput
  /\ flowErrors = None
  /\ flowOutcome = NoOutcome
  /\ entries = << >>
  /\ attempts = 0
  /\ timeoutErrorDefined \in BOOLEAN

VARIABLES
  configured,  \* the accounts with a config entry (one coordinator each)
  now,         \* the clock, in minutes
  provider,    \* provider[a]: the tunnel listing the provider holds for a
  pc,          \* pc[a]: "idle", "fetching", "reconciling", "published", "failed"
  due,         \* due[a]: when the next refresh of a is scheduled
  tTask,       \* tTask[a]: tunnels_task: "none", "pending", "returned", "raised"
  tRes,        \* tRes[a]: what tunnels_task ended in
  vTask,       \* vTask[a]: version_task: "none", "pending", "done"
  vRes,        \* vRes[a]: what version_task returned
  latest,      \* latest[a]: the local latest_version
  result,      \* result[a]: the local result
  idx,         \* idx[a]: position of the loop over result, from 1
  tunnels,     \* tunnels[a]: the local tunnels
  selfLatest,  \* selfLatest[a]: self._latest_version
  data,        \* data[a]: coordinator.data, the published snapshot
  error,       \* error[a]: the exception the cycle ended with
  loaded,      \* loaded[a]: async_setup_entry of sensor.py has added the entities
  sensors,     \* sensors[a]: the tunnel ids that have a sensor entity
  startData,   \* history: data[a] when the cycle began
  listOutcome, \* history: what the GET of the tunnel listing ended in
  connLog,     \* history: the connection fetches of the cycle, in order
  knownVersion,\* history: the last non-empty version a release fetch returned
  fetchedAt    \* history: when that fetch returned, -1 before any

cycleVars ==
  << configured, now, provider, pc, due, tTask, tRes, vTask, vRes, latest,
     result, idx, tunnels, selfLatest, data, error, loaded, sensors,
     startData, listOutcome, connLog, knownVersion, fetchedAt >>

vars == << rcVars, cycleVars, flowVars >>

\* coordinator.py 27-45: the state of fresh coordinators, none refreshing
CycleInit(accounts, listings) ==
  /\ configured = accounts
  /\ now = 0
  /\ provider = listings
  /\ pc = [ a \in Accounts |-> "idle" ]
  /\ due = [ a \in Accounts |-> 0 ]
  /\ tTask = [ a \in Accounts |-> "none" ]
  /\ tRes = [ a \in Accounts |-> NoResult ]
  /\ vTask = [ a \in Accounts |-> "none" ]
  /\ vRes = [ a \in Accounts |-> None ]
  /\ latest = [ a \in Accounts |-> None ]
  /\ result = [ a \in Accounts |-> << >> ]
  /\ idx = [ a \in Accounts |-> 0 ]
  /\ tunnels = [ a \in Accounts |-> << >> ]
  /\ selfLatest = [ a \in Accounts |-> None ]
  /\ data = [ a \in Accounts |-> NoData ]
  /\ error = [ a \in Accounts |-> NoError ]
  /\ loaded = [ a \in Accounts |-> FALSE ]
  /\ sensors = [ a \in Accounts |-> {} ]
  /\ startData = [ a \in Accounts |-> NoData ]
  /\ listOutcome = [ a \in Accounts |-> NoOutcome ]
  /\ connLog = [ a \in Accounts |-> << >> ]
  /\ knownVersion = None
  /\ fetchedAt = -1

\* coordinator.py 107-119: a refresh begins; tunnels_task and version_task
\* are started together by asyncio.gather.  The coordinator polls while it
\* has listeners, that is sensors; the first refresh is the one of
\* sensor.py 27.
StartCycle(a) ==
  /\ a \in configured
  /\ pc[a] = "idle"
  /\ now >= due[a]
  /\ vTask[a] # "pending"
  /\ loaded[a] => sensors[a] # {}
  /\ pc' = [ pc EXCEPT ![a] = "fetching" ]
  /\ tTask' = [ tTask EXCEPT ![a] = "pending" ]
  /\ vTask' = [ vTask EXCEPT ![a] = "pending" ]
  /\ startData' = [ startData EXCEPT ![a] = data[a] ]
  /\ listOutcome' = [ listOutcome EXCEPT ![a] = NoOutcome ]
  /\ connLog' = [ connLog EXCEPT ![a] = << >> ]
  /\ error' = [ error EXCEPT ![a] = NoError ]
  /\ UNCHANGED << configured, now, provider, due, tRes, vRes, latest, result,
                  idx, tunnels, selfLatest, data, loaded, sensors,
                  knownVersion, fetchedAt, rcVars, flowVars >>

\* coordinator.py 114, 117-119: tunnels_task ends.  An exception of it
\* leaves gather at once and ends the cycle; version_task runs on.
TunnelsResponse(a) ==
  /\ a \in configured
  /\ tTask[a] = "pending"
  /\ \E o \in TunnelOutcomes(provider[a]) :
       LET r == FetchJson(o)
       IN  /\ tRes' = [ tRes EXCEPT ![a] = r ]
           /\ listOutcome' = [ listOutcome EXCEPT ![a] = o ]
           /\ IF r.exc = "none"
              THEN /\ tTask' = [ tTask EXCEPT ![a] = "returned" ]
                   /\ UNCHANGED << pc, error >>
              ELSE /\ tTask' = [ tTask EXCEPT ![a] = "raised" ]
                   /\ pc' = [ pc EXCEPT ![a] = "failed" ]
                   /\ error' = [ error EXCEPT ![a] = [ exc |-> r.exc, msg |-> r.msg ] ]
  /\ UNCHANGED << configured, now, provider, due, vTask, vRes, latest, result,
                  idx, tunnels, selfLatest, data, loaded, sensors, startData,
                  connLog, knownVersion, fetchedAt, rcVars, flowVars >>

\* coordinator.py 115, 81-105: version_task ends
VersionResponse(a) ==
  /\ a \in configured
  /\ vTask[a] = "pending"
  /\ \E o \in ReleaseOutcomes :
       LET v == FetchLatestVersion(o)
       IN  /\ vRes' = [ vRes EXCEPT ![a] = v ]
           /\ knownVersion' = IF Truthy(v) THEN v ELSE knownVersion
           /\ fetchedAt' = IF Truthy(v) THEN now ELSE fetchedAt
  /\ vTask' = [ vTask EXCEPT ![a] = "done" ]
  /\ UNCHANGED << configured, now, provider, pc, due, tTask, tRes, latest,
                  result, idx, tunnels, selfLatest, data, error, loaded,
                  sensors, startData, listOutcome, connLog, rcVars, flowVars >>

\* coordinator.py 117-126: gather returns both values; the listing is
\* unpacked
GatherReturn(a) ==
  /\ a \in configured
  /\ pc[a] = "fetching"
  /\ tTask[a] = "returned"
  /\ vTask[a] = "done"
  /\ LET p == TunnelsResult(tRes[a].body)
     IN  IF p.exc = "none"
         THEN /\ result' = [ result EXCEPT ![a] = p.result ]
              /\ selfLatest' = [ selfLatest EXCEPT ![a] = vRes[a] ]
              /\ latest' = [ latest EXCEPT ![a] = vRes[a] ]
              /\ tunnels' = [ tunnels EXCEPT ![a] = << >> ]
              /\ idx' = [ idx EXCEPT ![a] = 1 ]
              /\ pc' = [ pc EXCEPT ![a] = "reconciling" ]
              /\ UNCHANGED error
         ELSE /\ pc' = [ pc EXCEPT ![a] = "failed" ]
              /\ error' = [ error EXCEPT ![a] = [ exc |-> p.exc, msg |-> p.msg ] ]
              /\ UNCHANGED << result, selfLatest, latest, tunnels, idx >>
  /\ UNCHANGED << configured, now, provider, due, tTask, tRes, vTask, vRes,
                  data, loaded, sensors, startData, listOutcome, connLog,
                  knownVersion, fetchedAt, rcVars, flowVars >>

\* coordinator.py 128-131: an entry without an id is passed over
SkipEntry(a) ==
  /\ a \in configured
  /\ pc[a] = "reconciling"
  /\ idx[a] <= Len(result[a])
  /\ ~Truthy(result[a][idx[a]].id)
  /\ idx' = [ idx EXCEPT ![a] = idx[a] + 1 ]
  /\ UNCHANGED << configured, now, provider, pc, due, tTask, tRes, vTask, vRes,
                  latest, result, tunnels, selfLatest, data, error, loaded,
                  sensors, startData, listOutcome, connLog, knownVersion,
                  fetchedAt, rcVars, flowVars >>

\* coordinator.py 133-163: the connections of one tunnel are fetched and
\* reconciled, and its record appended
FetchConnections(a) ==
  /\ a \in configured
  /\ pc[a] = "reconciling"
  /\ idx[a] <= Len(result[a])
  /\ Truthy(result[a][idx[a]].id)
  /\ LET tunnel == result[a][idx[a]]
     IN  \E o \in ConnectionOutcomes(tunnel.id) :
           LET r == FetchJson(o)
               c == ConnectionsRaw(r)
           IN  /\ connLog' = [ connLog EXCEPT ![a] =
                      Append(@, [ id |-> tunnel.id, outcome |-> o ]) ]
               /\ IF c.exc = "none"
                  THEN /\ tunnels' = [ tunnels EXCEPT ![a] =
                              Append(@, TunnelRecord(tunnel, c.conns, latest[a])) ]
                       /\ idx' = [ idx EXCEPT ![a] = idx[a] + 1 ]
                       /\ UNCHANGED << pc, error >>
                  ELSE /\ pc' = [ pc EXCEPT ![a] = "failed" ]
                       /\ error' = [ error EXCEPT ![a] = [ exc |-> c.exc, msg |-> "" ] ]
                       /\ UNCHANGED << tunnels, idx >>
  /\ UNCHANGED << configured, now, provider, due, tTask, tRes, vTask, vRes,
                  latest, result, selfLatest, data, loaded, sensors, startData,
                  listOutcome, knownVersion, fetchedAt, rcVars, flowVars >>

\* coordinator.py 165: the list is returned and becomes coordinator.data;
\* sensor.py 27-33: after the first refresh one sensor is added per tunnel
\* of coordinator.data
Publish(a) ==
  /\ a \in configured
  /\ pc[a] = "reconciling"
  /\ idx[a] > Len(result[a])
  /\ data' = [ data EXCEPT ![a] = [ has |-> TRUE, tunnels |-> tunnels[a] ] ]
  /\ pc' = [ pc EXCEPT ![a] = "published" ]
  /\ IF loaded[a]
     THEN UNCHANGED << loaded, sensors >>
     ELSE /\ loaded' = [ loaded EXCEPT ![a] = TRUE ]
          /\ sensors' = [ sensors EXCEPT ![a] =
                 { tunnels[a][k].id : k \in 1..Len(tunnels[a]) } ]
  /\ UNCHANGED << configured, now, provider, due, tTask, tRes, vTask, vRes,
                  latest, result, idx, tunnels, selfLatest, error, startData,
                  listOutcome, connLog, knownVersion, fetchedAt, rcVars, flowVars >>

\* coordinator.py 40-45: the cycle is over and the next is scheduled one
\* update_interval after it; the locals of _async_update_data are gone
EndCycle(a) ==
  /\ a \in configured
  /\ pc[a] \in { "published", "failed" }
  /\ pc' = [ pc EXCEPT ![a] = "idle" ]
  /\ due' = [ due EXCEPT ![a] = now + UpdateInterval ]
  /\ tTask' = [ tTask EXCEPT ![a] = "none" ]
  /\ tRes' = [ tRes EXCEPT ![a] = NoResult ]
  /\ latest' = [ latest EXCEPT ![a] = None ]
  /\ result' = [ result EXCEPT ![a] = << >> ]
  /\ idx' = [ idx EXCEPT ![a] = 0 ]
  /\ tunnels' = [ tunnels EXCEPT ![a] = << >> ]
  /\ error' = [ error EXCEPT ![a] = NoError ]
  /\ startData' = [ startData EXCEPT ![a] = NoData ]
  /\ listOutcome' = [ listOutcome EXCEPT ![a] = NoOutcome ]
  /\ connLog' = [ connLog EXCEPT ![a] = << >> ]
  /\ UNCHANGED << configured, now, provider, vTask, vRes, selfLatest, data,
                  loaded, sensors, knownVersion, fetchedAt, rcVars, flowVars >>

\* Time passes to the next timer: every account has ended its cycle of this
\* period and no request is in flight (each request is bounded by the 15 s
\* timeout of coordinator.py 62 and 89).
Tick ==
  /\ now < MaxTicks * UpdateInterval
  /\ \A a \in configured : pc[a] = "idle" /\ due[a] > now /\ vTask[a] # "pending"
  /\ now' = now + UpdateInterval
  /\ UNCHANGED << configured, provider, pc, due, tTask, tRes, vTask, vRes,
                  latest, result, idx, tunnels, selfLatest, data, error,
                  loaded, sensors, startData, listOutcome, connLog,
                  knownVersion, fetchedAt, rcVars, flowVars >>

\* the provider's listing of an account changes between two refreshes
ProviderChange(a) ==
  /\ a \in configured
  /\ pc[a] = "idle"
  /\ \E l \in Listings \ { provider[a] } : provider' = [ provider EXCEPT ![a] = l ]
  /\ UNCHANGED << configured, now, pc, due, tTask, tRes, vTask, vRes, latest,
                  result, idx, tunnels, selfLatest, data, error, loaded,
                  sensors, startData, listOutcome, connLog, knownVersion,
                  fetchedAt, rcVars, flowVars >>

Cycle(a) ==
  \/ StartCycle(a)
  \/ TunnelsResponse(a)
  \/ VersionResponse(a)
  \/ GatherReturn(a)
  \/ SkipEntry(a)
  \/ FetchConnections(a)
  \/ Publish(a)
  \/ EndCycle(a)

(***************************************************************************)
(* Spec: one monitored account, whose listing changes over time.           *)
(***************************************************************************)
Init ==
  /\ RcIdle
  /\ FlowIdle
  /\ \E l \in Listings :
       CycleInit({ "acct1" }, [ a \in Accounts |-> IF a = "acct1" THEN l ELSE << >> ])

Next ==
  \/ \E a \in Accounts : Cycle(a)
  \/ \E a \in Accounts : ProviderChange(a)
  \/ Tick

Spec == Init /\ [][Next]_vars

\* a step of a refresh that has started, or of a release request in flight
CycleStep(a) ==
  \/ TunnelsResponse(a)
  \/ VersionResponse(a)
  \/ GatherReturn(a)
  \/ SkipEntry(a)
  \/ FetchConnections(a)
  \/ Publish(a)
  \/ EndCycle(a)

\* Spec with the scheduling of the event loop: every request ends in a
\* response or in the timeout of coordinator.py 62 and 89, and a coroutine
\* that can continue does.
SpecFair ==
  /\ Init /\ [][Next]_vars
  /\ WF_vars(CycleStep("acct1"))
  /\ WF_vars(CycleStep("acct2"))

(***************************************************************************)
(* SpecShared: two monitored accounts of one process, each with one        *)
(* addressable tunnel, within one timer period.                            *)
(***************************************************************************)
InitShared ==
  /\ RcIdle
  /\ FlowIdle
  /\ CycleInit(Accounts,
               [ a \in Accounts |-> IF a = "acct1" THEN << T1 >>
                                    ELSE << NoIdTunnel, T1 >> ])

NextShared == \E a \in Accounts : Cycle(a)

SpecShared == InitShared /\ [][NextShared]_vars

(***************************************************************************)
(* SpecFlow: the config flow, the form submitted up to MaxAttempts times.  *)
(***************************************************************************)
\* config_flow.py 60-71, 88-97: async_step_user(None) shows the empty form
ShowForm ==
  /\ flowPc = "init"
  /\ flowPc' = "form"
  /\ flowErrors' = None
  /\ UNCHANGED << flowInput, flowOutcome, entries, attempts, timeoutErrorDefined,
                  rcVars, cycleVars >>

\* config_flow.py 60-74: async_step_user(user_input) up to the request of
\* validate_credentials
Submit ==
  /\ flowPc = "form"
  /\ attempts < MaxAttempts
  /\ \E user_input \in UserInputs : flowInput' = user_input
  /\ flowPc' = "validating"
  /\ flowErrors' = None
  /\ flowOutcome' = NoOutcome
  /\ attempts' = attempts + 1
  /\ UNCHANGED << entries, timeoutErrorDefined, rcVars, cycleVars >>

\* config_flow.py 42-52, 75-97: the request ends; the entry is created or
\* the form is shown again with an error
VerifyResponse ==
  /\ flowPc = "validating"
  /\ \E o \in VerifyOutcomes :
       LET e == StepUserError(ValidateCredentials(o, timeoutErrorDefined))
       IN  /\ flowOutcome' = o
           /\ IF e = None
              THEN /\ entries' = Append(entries, ConfigEntry(flowInput))
                   /\ flowPc' = "created"
                   /\ UNCHANGED flowErrors
              ELSE /\ flowErrors' = e
                   /\ flowPc' = "form"
                   /\ UNCHANGED entries
  /\ UNCHANGED << flowInput, attempts, timeoutErrorDefined, rcVars, cycleVars >>

\* the user opens the flow again, for another entry
NewFlow ==
  /\ flowPc = "created"
  /\ attempts < MaxAttempts
  /\ flowPc' = "init"
  /\ flowInput' = NoInput
  /\ flowErrors' = None
  /\ flowOutcome' = NoOutcome
  /\ UNCHANGED << entries, attempts, timeoutErrorDefined, rcVars, cycleVars >>

InitFlow ==
  /\ RcIdle
  /\ CycleInit({}, [ a \in Accounts |-> << >> ])
  /\ FlowInit

NextFlow ==
  \/ ShowForm
  \/ Submit
  \/ VerifyResponse
  \/ NewFlow

SpecFlow == InitFlow /\ [][NextFlow]_vars

(***************************************************************************)
(* SpecRec: _build_connectors applied to every bounded input.              *)
(***************************************************************************)
InitRec ==
  /\ RcInit
  /\ FlowIdle
  /\ CycleInit({}, [ a \in Accounts |-> << >> ])

NextRec == Reconcile /\ UNCHANGED << cycleVars, flowVars >>

SpecRec == InitRec /\ [][NextRec]_vars


(***************************************************************************)
(* Claims about the refresh cycle.                                         *)
(***************************************************************************)
\* the GET of the tunnel listing ended in a 200 whose body is an object with
\* a list (or no) "result"
ListFetchSucceeded(a) ==
  /\ listOutcome[a].kind = "response"
  /\ listOutcome[a].status = 200
  /\ listOutcome[a].body.shape = "object"
  /\ listOutcome[a].body.resultKind \in { "list", "absent" }

\* the GET of the tunnel listing ended in a 401, another non-200 status, a
\* timeout, a client error, or a 200 whose "result" is not a list
ListFetchFailed(a) ==
  \/ listOutcome[a].kind \in { "timeout", "clienterror" }
  \/ /\ listOutcome[a].kind = "response"
     /\ listOutcome[a].status # 200
  \/ /\ listOutcome[a].kind = "response"
     /\ listOutcome[a].status = 200
     /\ listOutcome[a].body.shape = "object"
     /\ listOutcome[a].body.resultKind \notin { "list", "absent" }

\* C1: when the tunnel-list fetch of a cycle fails (401, other non-200,
\* timeout, client error, "result" not a list), the cycle fails, publishes
\* no snapshot, not even a partial one, and the snapshot consumers see is the
\* one they saw before the cycle.
C1_ListFailureKeepsSnapshot ==
  \A a \in configured :
    /\ pc[a] \in { "fetching", "reconciling", "failed" } => data[a] = startData[a]
    /\ ListFetchFailed(a) =>
         /\ pc[a] \in { "fetching", "failed" }
         /\ data[a] = startData[a]
         /\ tunnels[a] = << >>
    /\ (ListFetchFailed(a) /\ pc[a] = "failed") => error[a].exc = "UpdateFailed"

C1_Witness ==
  \E a \in configured :
    /\ pc[a] = "failed"
    /\ listOutcome[a].kind = "response" /\ listOutcome[a].status = 500
    /\ startData[a].has
    /\ Len(startData[a].tunnels) = 2
    /\ data[a] = startData[a]

\* C2: within a cycle no per-tunnel connection fetch is issued before the
\* tunnel-list fetch of that cycle has succeeded; a cycle whose tunnel-list
\* fetch returns HTTP 401 attempts no connection fetch.
C2_NoConnectionFetchBeforeListing ==
  \A a \in configured :
    /\ connLog[a] # << >> => ListFetchSucceeded(a) /\ tTask[a] = "returned"
    /\ (listOutcome[a].kind = "response" /\ listOutcome[a].status = 401) =>
         connLog[a] = << >>

C2_Witness ==
  \E a \in configured :
    /\ pc[a] = "failed"
    /\ listOutcome[a].kind = "response" /\ listOutcome[a].status = 401
    /\ \E k \in 1..Len(listOutcome[a].body.result) :
         Truthy(listOutcome[a].body.result[k].id)
    /\ connLog[a] = << >>

\* the entries of a listing that have an id, in order
RECURSIVE Addressable(_)
Addressable(listing) ==
  IF listing = << >> THEN << >>
  ELSE IF Head(listing).id \in { None, "" } THEN Addressable(Tail(listing))
  ELSE << Head(listing) >> \o Addressable(Tail(listing))

\* a connection fetch that gave no connection data
ConnectionFetchFailed(o) ==
  ~ (o.kind = "response" /\ o.status = 200 /\ o.body.shape = "object")

\* the record of tunnel entry e whose connection fetch ended in o, as if it
\* were the only tunnel of the listing
IsolatedRecord(e, o, latest_version) ==
  TunnelRecord(e,
               IF ConnectionFetchFailed(o) \/ o.body.resultKind # "list"
               THEN << >> ELSE o.body.result,
               latest_version)

\* C3: a cycle whose tunnel-list fetch succeeded publishes a snapshot that
\* holds every listed tunnel with an id, whatever subset of the connection
\* fetches failed; a tunnel whose connection fetch failed has
\* connector_count 0, session_count 0 and no connectors, and every other
\* record is what it would be had no sibling failed.
C3_ConnectionFailuresIsolated ==
  \A a \in configured :
    (ListFetchSucceeded(a) /\ pc[a] \in { "published", "failed" }) =>
      LET listed == Addressable(listOutcome[a].body.result)
      IN  /\ pc[a] = "published"
          /\ Len(data[a].tunnels) = Len(listed)
          /\ Len(connLog[a]) = Len(listed)
          /\ \A k \in 1..Len(listed) :
               /\ data[a].tunnels[k] =
                    IsolatedRecord(listed[k], connLog[a][k].outcome, latest[a])
               /\ ConnectionFetchFailed(connLog[a][k].outcome) =>
                    /\ data[a].tunnels[k].connector_count = 0
                    /\ data[a].tunnels[k].session_count = 0
                    /\ data[a].tunnels[k].connectors = << >>

\* a new GET of the release endpoint is issued for account a in this step
ReleaseRequestIssued(a) == vTask[a] # "pending" /\ vTask'[a] = "pending"

\* the version of the release fetch is handed to the cycle of a in this step
VersionHandedOver(a) == pc[a] = "fetching" /\ pc'[a] = "reconciling"

\* C4: after a successful fetch of the latest release at time t, a request
\* for the latest version at a time now with now - t < TTL makes no call to
\* the release endpoint and returns the same version.
C4_NoReleaseCallWithinTTL ==
  [][ \A a \in Accounts :
        (fetchedAt >= 0 /\ now - fetchedAt < TTL) =>
          /\ ~ReleaseRequestIssued(a)
          /\ VersionHandedOver(a) => latest'[a] = knownVersion ]_vars

\* C5: once a latest version v has been fetched, a later fetch that fails
\* or returns empty still hands v to the cycle, and v is what the published
\* tunnel records and their connectors carry.
C5_StaleVersionSurvivesFailedFetch ==
  [][ \A a \in Accounts :
        /\ (VersionHandedOver(a) /\ knownVersion # None) => latest'[a] = knownVersion
        /\ (pc[a] = "reconciling" /\ pc'[a] = "published") =>
             \A k \in 1..Len(data'[a].tunnels) :
               LET t == data'[a].tunnels[k]
               IN  /\ t.latest_cloudflared_version = latest[a]
                   /\ \A j \in 1..Len(t.connectors) :
                        t.connectors[j].latest_version = latest[a] ]_vars

\* C6: with two or more accounts refreshing concurrently, at most one
\* request to the release endpoint is in flight at any time.
C6_OneReleaseRequestInFlight ==
  Cardinality({ a \in configured : vTask[a] = "pending" }) <= 1

\* C7: the health state a sensor exposes for a tunnel record of the
\* published snapshot is one of inactive, degraded, healthy, down, or is
\* None; a declared status outside the four is exposed as None.
C7_NativeValueInOptionsOrNone ==
  \A a \in configured :
    \A k \in 1..Len(data[a].tunnels) :
      NativeValue(data[a], data[a].tunnels[k].id) \in Options \cup { None }

(***************************************************************************)
(* Claims about the reconciler, checked under SpecRec.                     *)
(***************************************************************************)
\* the first non-empty value of a fallback chain, None when there is none
RECURSIVE FirstNonEmpty(_)
FirstNonEmpty(chain) ==
  IF chain = << >> THEN None
  ELSE IF Head(chain) \notin { None, "" } THEN Head(chain)
  ELSE FirstNonEmpty(Tail(chain))

ClientIdOf(c) ==
  IF FirstNonEmpty(<< c.client_id, c.clientId >>) = None THEN "unknown"
  ELSE FirstNonEmpty(<< c.client_id, c.clientId >>)

EdgeOf(c) == FirstNonEmpty(<< c.colo_name, c.edge, c.colo, c.origin >>)

OriginIpOf(c) == FirstNonEmpty(<< c.client_address, c.origin_ip, c.ip >>)

\* the positions of the input list folded into the connector of client_id
FoldedInto(client_id) ==
  { k \in 1..Len(rcConns) : ClientIdOf(rcConns[k]) = client_id }

RECURSIVE SumSessions(_)
SumSessions(connectors) ==
  IF connectors = << >> THEN 0
  ELSE Head(connectors).sessions + SumSessions(Tail(connectors))

StrictlyAscending(list) ==
  \A i \in 1..Len(list) : \A j \in 1..Len(list) :
     i < j => StrLess(list[i], list[j])

Range(list) == { list[i] : i \in 1..Len(list) }

\* C8: for every raw connection list, the empty list and lists with records
\* missing every field included, the session_count returned by
\* _build_connectors equals the length of the input list.
C8_SessionCountIsInputLength ==
  rcPc = "done" => rcOut.session_count = Len(rcConns)

C8_Witness ==
  /\ rcPc = "done"
  /\ Len(rcConns) >= 2
  /\ \E k \in 1..Len(rcConns) : rcConns[k] = BlankConn
  /\ rcOut.session_count = Len(rcConns)

\* C9: the sessions of the returned connectors sum to session_count, every
\* connector has sessions >= 1, and connector_count is the number of distinct
\* resolved client identifiers of the input ("unknown" counted as one).
C9_SessionsSumAndConnectorCount ==
  rcPc = "done" =>
    /\ SumSessions(rcOut.connectors) = rcOut.session_count
    /\ \A j \in 1..Len(rcOut.connectors) : rcOut.connectors[j].sessions >= 1
    /\ rcOut.connector_count =
         Cardinality({ ClientIdOf(rcConns[k]) : k \in 1..Len(rcConns) })
    /\ rcOut.connector_count = Len(rcOut.connectors)

C9_Witness ==
  /\ rcPc = "done"
  /\ rcOut.connector_count = 2
  /\ rcOut.session_count = 3
  /\ \E j \in 1..Len(rcOut.connectors) :
        /\ rcOut.connectors[j].client_id = "unknown"
        /\ rcOut.connectors[j].sessions = 2

\* C10: on every returned connector, edges and origin_ips are sorted
\* ascending without duplicates and hold exactly the distinct non-empty edge
\* and origin-IP values of the connections folded into that connector.
C10_EdgesAndIpsSortedExact ==
  rcPc = "done" =>
    \A j \in 1..Len(rcOut.connectors) :
      LET c == rcOut.connectors[j]
          members == FoldedInto(c.client_id)
      IN  /\ StrictlyAscending(c.edges)
          /\ StrictlyAscending(c.origin_ips)
          /\ Range(c.edges) = { EdgeOf(rcConns[k]) : k \in members } \ { None }
          /\ Range(c.origin_ips) = { OriginIpOf(rcConns[k]) : k \in members } \ { None }

C10_Witness ==
  /\ rcPc = "done"
  /\ Len(rcConns) = 3
  /\ EdgeOf(rcConns[1]) = "FRA" /\ EdgeOf(rcConns[2]) = "AMS" /\ EdgeOf(rcConns[3]) = "FRA"
  /\ Len(rcOut.connectors) = 1
  /\ rcOut.connectors[1].edges = << "AMS", "FRA" >>

VersionOf(c) == FirstNonEmpty(<< c.client_version, c.clientVersion, c.version >>)

OpenedAtOf(c) == FirstNonEmpty(<< c.opened_at, c.openedAt, c.started_at >>)

\* the sub-list of the connections that resolve to client_id, in input order
RECURSIVE GroupOf(_, _)
GroupOf(connections, client_id) ==
  IF connections = << >> THEN << >>
  ELSE IF ClientIdOf(Head(connections)) = client_id
  THEN << Head(connections) >> \o GroupOf(Tail(connections), client_id)
  ELSE GroupOf(Tail(connections), client_id)

\* the first non-empty client version of a list of connections
RECURSIVE FirstVersion(_)
FirstVersion(connections) ==
  IF connections = << >> THEN None
  ELSE IF VersionOf(Head(connections)) # None THEN VersionOf(Head(connections))
  ELSE FirstVersion(Tail(connections))

IsEmpty(x) == x \in { None, "" }

\* C11: on every returned connector, version_diff is non-null exactly when
\* update_available is true, update_available is true exactly when version
\* and latest_version are both non-empty and differ, and when either is
\* empty is_latest, update_available and version_diff are all null.
C11_VersionDriftFields ==
  rcPc = "done" =>
    \A j \in 1..Len(rcOut.connectors) :
      LET c == rcOut.connectors[j]
          bothKnown == ~IsEmpty(c.version) /\ ~IsEmpty(c.latest_version)
      IN  /\ c.latest_version = rcLatest
          /\ (c.version_diff # None) <=> (c.update_available = "True")
          /\ (c.update_available = "True") <=> (bothKnown /\ c.version # c.latest_version)
          /\ ~bothKnown =>
                /\ c.is_latest = None
                /\ c.update_available = None
                /\ c.version_diff = None
          /\ (bothKnown /\ c.version = c.latest_version) =>
                c.is_latest = "True" /\ c.update_available = "False"

C11_Witness ==
  /\ rcPc = "done"
  /\ rcLatest = "2024.2.0"
  /\ \E j \in 1..Len(rcOut.connectors) :
        /\ rcOut.connectors[j].update_available = "True"
        /\ rcOut.connectors[j].version_diff = "2024.1.0 -> 2024.2.0"
  /\ \E j \in 1..Len(rcOut.connectors) :
        /\ rcOut.connectors[j].version = None
        /\ rcOut.connectors[j].update_available = None
  /\ \E j \in 1..Len(rcOut.connectors) : rcOut.connectors[j].is_latest = "True"

\* C12: the version of every returned connector is the first non-empty
\* client version among the connections of its group, in input order, also
\* when the first connection of the group reports none and a later one does.
C12_VersionIsFirstNonEmpty ==
  rcPc = "done" =>
    \A j \in 1..Len(rcOut.connectors) :
      LET c == rcOut.connectors[j]
          first == FirstVersion(GroupOf(rcConns, c.client_id))
      IN  IF first = None THEN IsEmpty(c.version) ELSE c.version = first

\* C13: a connection without a client identifier under every alias is not
\* dropped: it is folded into the connector "unknown" and counts in that
\* connector's sessions and in session_count.
C13_UnknownBucketKeepsConnections ==
  rcPc = "done" =>
    LET anonymous == { k \in 1..Len(rcConns) :
                         IsEmpty(rcConns[k].client_id) /\ IsEmpty(rcConns[k].clientId) }
        buckets == { j \in 1..Len(rcOut.connectors) :
                       rcOut.connectors[j].client_id = "unknown" }
    IN  anonymous # {} =>
          /\ Cardinality(buckets) = 1
          /\ \A j \in buckets : rcOut.connectors[j].sessions = Cardinality(anonymous)
          /\ rcOut.session_count =
               Cardinality(anonymous) + (Len(rcConns) - Cardinality(anonymous))
          /\ SumSessions(rcOut.connectors) = Len(rcConns)

C13_Witness ==
  /\ rcPc = "done"
  /\ Len(rcConns) = 3
  /\ rcConns[1] = BlankConn
  /\ ClientIdOf(rcConns[2]) = "A"
  /\ ClientIdOf(rcConns[3]) = "unknown"
  /\ rcOut.session_count = 3
  /\ \E j \in 1..Len(rcOut.connectors) :
        rcOut.connectors[j].client_id = "unknown" /\ rcOut.connectors[j].sessions = 2

PendingOf(c) == c.is_pending_reconnect = "true" \/ c.pending_reconnect = "true"

\* C19: pending_reconnect of a returned connector is true exactly when at
\* least one connection folded into it signalled pending-reconnect under
\* either alias; a later connection without the flag does not reset it.
C19_PendingReconnectIsAny ==
  rcPc = "done" =>
    \A j \in 1..Len(rcOut.connectors) :
      LET c == rcOut.connectors[j]
      IN  c.pending_reconnect <=>
            \E k \in FoldedInto(c.client_id) : PendingOf(rcConns[k])

C19_Witness ==
  /\ rcPc = "done"
  /\ Len(rcConns) = 3
  /\ \A k \in 1..3 : ClientIdOf(rcConns[k]) = "A"
  /\ rcConns[1].is_pending_reconnect = "false" /\ rcConns[1].pending_reconnect = "true"
  /\ ~PendingOf(rcConns[2]) /\ ~PendingOf(rcConns[3])
  /\ rcOut.connectors[1].pending_reconnect

\* C20: opened_at_latest of a returned connector is the greatest, in string
\* order, of the non-empty open timestamps of the connections folded into
\* it, whatever their order in the input, and is null when none has one.
C20_OpenedAtLatestIsMaximum ==
  rcPc = "done" =>
    \A j \in 1..Len(rcOut.connectors) :
      LET c == rcOut.connectors[j]
          stamps == { OpenedAtOf(rcConns[k]) : k \in FoldedInto(c.client_id) } \ { None }
      IN  IF stamps = {} THEN c.opened_at_latest = None
          ELSE /\ c.opened_at_latest \in stamps
               /\ \A t \in stamps :
                    t = c.opened_at_latest \/ StrLess(t, c.opened_at_latest)

C20_Witness ==
  /\ rcPc = "done"
  /\ Len(rcConns) = 3
  /\ \A k \in 1..3 : ClientIdOf(rcConns[k]) = "B"
  /\ OpenedAtOf(rcConns[1]) = "2024-03-01T00:00:00Z"
  /\ OpenedAtOf(rcConns[2]) = "2024-01-01T00:00:00Z"
  /\ OpenedAtOf(rcConns[3]) = None
  /\ rcOut.connectors[1].opened_at_latest = "2024-03-01T00:00:00Z"

\* the snapshot a holds has one record per listed entry with an id, in
\* order, entries without an id got no connection fetch, and the name of
\* every record is name(entry, id)
SnapshotOfAddressable(a, name(_)) ==
  LET listed == Addressable(listOutcome[a].body.result)
  IN  /\ Len(data[a].tunnels) = Len(listed)
      /\ Len(connLog[a]) = Len(listed)
      /\ \A k \in 1..Len(listed) :
           /\ data[a].tunnels[k].id = listed[k].id
           /\ connLog[a][k].id = listed[k].id
           /\ data[a].tunnels[k].name = name(listed[k])

NameOrIdWhenAbsent(e) == IF e.name = None THEN e.id ELSE e.name

NameOrIdWhenEmpty(e) == IF IsEmpty(e.name) THEN e.id ELSE e.name

NoRecordWithoutId(a) ==
  \A k \in 1..Len(data[a].tunnels) : ~IsEmpty(data[a].tunnels[k].id)

\* C14 as stated: every published snapshot has no record with a missing or
\* empty id, entries without an id are skipped without a connection fetch,
\* and every entry with an id yields a record whose name is the listed
\* name, or the id when the name is absent.
C14_NameIsListedOrIdWhenAbsent ==
  \A a \in configured :
    /\ NoRecordWithoutId(a)
    /\ pc[a] = "published" => SnapshotOfAddressable(a, NameOrIdWhenAbsent)

\* C14, amended: as above, and the name of a record is the listed name when
\* that is non-empty, and the id when the name is absent or the empty
\* string.
C14_NameIsListedOrIdWhenEmpty ==
  \A a \in configured :
    /\ NoRecordWithoutId(a)
    /\ pc[a] = "published" => SnapshotOfAddressable(a, NameOrIdWhenEmpty)

C14_Witness ==
  \E a \in configured :
    /\ pc[a] = "published"
    /\ listOutcome[a].body.result = << T1, NoIdTunnel, T3 >>
    /\ Len(data[a].tunnels) = 2
    /\ data[a].tunnels[1].name = "home"
    /\ data[a].tunnels[2].name = "t3"
    /\ connLog[a][2].id = "t3"

\* part occurs in the string msg
Contains(msg, part) ==
  \E i \in 1..(Len(msg) - Len(part) + 1) : SubSeq(msg, i, i + Len(part) - 1) = part

UnauthorizedMessage == "Unauthorized (401). Check your API token."

UnreachableMessages ==
  { "Timeout while communicating with Cloudflare",
    "Client error while communicating with Cloudflare" }

\* r, what _fetch_json ended in on the outcome o of its request, is of the
\* failure kind of o
FailureKindOf(o, r) ==
  /\ (o.kind = "response" /\ o.status = 401) =>
       r.exc = "UpdateFailed" /\ r.msg = UnauthorizedMessage
  /\ (o.kind = "response" /\ o.status \notin { 200, 401 }) =>
       /\ r.exc = "UpdateFailed"
       /\ r.msg \notin { UnauthorizedMessage } \cup UnreachableMessages
       /\ Contains(r.msg, ToString(o.status))
       /\ Contains(r.msg, o.reason)
       /\ Contains(r.msg, Excerpt(o.body.text))
       /\ Len(r.msg) <= Len(o.reason) + ExcerptLen + 30
  /\ o.kind \in { "timeout", "clienterror" } =>
       r.exc = "UpdateFailed" /\ r.msg \in UnreachableMessages
  /\ r.exc = "none" => o.kind = "response" /\ o.status = 200

\* C16: _fetch_json maps each outcome of a request to its failure kind: a
\* 401 fails with the Unauthorized message; any other status that is not
\* 200 fails with a message carrying the status, the reason and an excerpt
\* of the body; a timeout or a connection failure fails with one of the
\* unreachable messages; only a 200 returns a payload.
C16_FailureKinds ==
  \A a \in configured :
    /\ listOutcome[a].kind # "none" => FailureKindOf(listOutcome[a], tRes[a])
    /\ (listOutcome[a].kind # "none" /\ tRes[a].exc = "UpdateFailed") =>
         error[a].msg = tRes[a].msg
    /\ \A k \in 1..Len(connLog[a]) :
         FailureKindOf(connLog[a][k].outcome, FetchJson(connLog[a][k].outcome))

C16_Witness ==
  \E a \in configured :
    /\ pc[a] = "failed"
    /\ listOutcome[a].kind = "response" /\ listOutcome[a].status = 500
    /\ Len(listOutcome[a].body.text) > ExcerptLen
    /\ Contains(error[a].msg, "500")
    /\ Contains(error[a].msg, "Internal Server Error - <!DOCTYPE html>")
    /\ ~Contains(error[a].msg, "</html>")

\* C15: the release request is never fatal to a cycle: whatever it ends in,
\* _fetch_latest_version returns a version or nothing, and a cycle that
\* has ended published a snapshot exactly when its tunnel-list fetch
\* succeeded.
C15_ReleaseFetchNeverFatal ==
  \A a \in configured :
    /\ vTask[a] = "done" => vRes[a] \in { None, "2024.2.0" }
    /\ pc[a] \in { "published", "failed" } =>
         (pc[a] = "published" <=> ListFetchSucceeded(a))

\* C18: _fetch_json ends in a payload the caller can read, a JSON object,
\* or in UpdateFailed, for the listing and for every connection fetch; no
\* cycle ends in another exception, and every tunnel whose connections were
\* requested has its record, with zero connections when the response was
\* malformed.
C18_OnlyStructuredFailures ==
  \A a \in configured :
    /\ tRes[a].exc \in { "none", "UpdateFailed" }
    /\ (listOutcome[a].kind # "none" /\ tRes[a].exc = "none") =>
         tRes[a].body.shape = "object"
    /\ error[a].exc \in { "none", "UpdateFailed" }
    /\ \A k \in 1..Len(connLog[a]) :
         LET r == FetchJson(connLog[a][k].outcome)
         IN  /\ r.exc \in { "none", "UpdateFailed" }
             /\ r.exc = "none" => r.body.shape = "object"
    /\ pc[a] \in { "reconciling", "published" } => Len(tunnels[a]) = Len(connLog[a])

\* the steps of the state machine of a refresh cycle
CycleTransitions ==
  { << "idle", "fetching" >>, << "fetching", "reconciling" >>,
    << "reconciling", "published" >>, << "fetching", "failed" >>,
    << "published", "idle" >>, << "failed", "idle" >> }

\* C17: every refresh cycle of an account goes Idle, Fetching, Reconciling,
\* Published or Idle, Fetching, Failed, so Published is reached from
\* Reconciling only; a started cycle eventually reaches Published or Failed
\* and then returns to Idle.
C17_CycleStateMachine ==
  /\ [][\A a \in Accounts :
          pc'[a] # pc[a] => << pc[a], pc'[a] >> \in CycleTransitions]_vars
  /\ \A a \in Accounts :
       (pc[a] = "fetching") ~> (pc[a] \in { "published", "failed" })
  /\ \A a \in Accounts :
       (pc[a] \in { "published", "failed" }) ~> (pc[a] = "idle")

\* C22: for every tunnel record of the current snapshot, the attributes of
\* the sensor of that tunnel report the connector_count, the session_count
\* and the connector list the coordinator computed for it.
C22_AttributesMatchSnapshot ==
  \A a \in configured :
    \A k \in 1..Len(data[a].tunnels) :
      LET t == data[a].tunnels[k]
          attrs == ExtraStateAttributes(data[a], t.id)
      IN  t.id \in sensors[a] =>
            /\ attrs.connector_count = t.connector_count
            /\ attrs.session_count = t.session_count
            /\ attrs.connectors = t.connectors

TunnelIds == { "t1", "t2", "t3" }

\* C23: a sensor reads only the record whose id is its own: when the
\* snapshot has no such record, or there is no snapshot, its native_value
\* is null and its attributes report no connector and no session; the
\* status it reports is never that of a record with another id.
C23_SensorReadsOwnRecordOnly ==
  \A a \in configured :
    \A tid \in TunnelIds :
      LET own == { k \in 1..Len(data[a].tunnels) : data[a].tunnels[k].id = tid }
          attrs == ExtraStateAttributes(data[a], tid)
      IN  /\ own = {} =>
               /\ NativeValue(data[a], tid) = None
               /\ attrs.connector_count = 0
               /\ attrs.session_count = 0
               /\ attrs.connectors = << >>
               /\ attrs.latest_cloudflared_version = None
          /\ own # {} =>
               /\ \E k \in own : NativeValue(data[a], tid) = data[a].tunnels[k].status
               /\ \E k \in own : attrs.latest_cloudflared_version =
                                     data[a].tunnels[k].latest_cloudflared_version

C23_Witness ==
  \E a \in configured :
    /\ "t3" \in sensors[a]
    /\ data[a].has
    /\ Len(data[a].tunnels) = 1
    /\ data[a].tunnels[1].id = "t1"
    /\ data[a].tunnels[1].status = "healthy"
    /\ data[a].tunnels[1].latest_cloudflared_version = "2024.2.0"
    /\ NativeValue(data[a], "t3") = None
    /\ ExtraStateAttributes(data[a], "t3").session_count = 0

\* C24: every tunnel id of the current snapshot has a sensor entity, also a
\* tunnel that the provider first lists in a cycle after the first refresh.
C24_EveryTunnelHasSensor ==
  \A a \in configured :
    \A k \in 1..Len(data[a].tunnels) : data[a].tunnels[k].id \in sensors[a]

\* the verification request has ended in this step
VerifyEnded == flowPc = "validating" /\ flowPc' # "validating"

VerifiedOk(o) == o.kind = "response" /\ o.status = 200

\* C21: a config entry is created if and only if the token-verification
\* request returned HTTP 200; a 401 yields the error invalid_auth, any other
\* status, a client error or a timeout yields cannot_connect, and in every
\* error case the form is shown again and no entry is created.
C21_EntryIffVerified ==
  [][/\ entries' # entries => VerifyEnded /\ VerifiedOk(flowOutcome')
     /\ VerifyEnded =>
          /\ VerifiedOk(flowOutcome') =>
               /\ entries' = Append(entries, ConfigEntry(flowInput))
               /\ flowPc' = "created"
          /\ ~VerifiedOk(flowOutcome') =>
               /\ entries' = entries
               /\ flowPc' = "form"
               /\ flowErrors' =
                    IF flowOutcome'.kind = "response" /\ flowOutcome'.status = 401
                    THEN "invalid_auth" ELSE "cannot_connect"]_vars

=============================================================================
